---- MODULE Spec2Model ----
(***************************************************************************)
(* Model of the vt crate (src/src/lib.rs, src/src/ffi.rs): the Console     *)
(* handle, the allocation of a virtual terminal above a minimum number,    *)
(* the Vt handle with its cached termios, and the Drop of a Vt.            *)
(*                                                                         *)
(* The program is a single-threaded client of the kernel.  The kernel is   *)
(* the environment: every system call either succeeds or fails, chosen by  *)
(* the environment; which VT the kernel reports as first free follows from *)
(* the VTs that are held open (by other programs, or by this one).         *)
(***************************************************************************)
EXTENDS Integers, Sequences, FiniteSets, TLC

\* ---------------------------------------------------------------- bounds
\* Number of VTs the kernel is configured with (VTs are numbered 1..MaxVT).
MaxVT == 16
\* Largest value of the console blank timer.
MaxTimer == 2

\* ------------------------------------------------------ program constants
\* The window of VT_GETSTATE's v_state bitmask scanned by the allocation.
StateBits == 16
\* errno values
EINTR == 4
EACCES == 13
ENOENT == 2
\* The descriptor of /dev/console held by the Console.
ConsoleFd == 3
\* lib.rs:375, 380, 385: the control characters Vt::signals stores for an
\* enabled SIGINT, SIGQUIT and SIGTSTP.
CcIntr == 3
CcQuit == 34
CcSusp == 32

VARIABLES
    busy,          \* kernel: VTs held open by other programs
    openFiles,     \* the process's open VT device files: records [fd, tty]
    consoleblank,  \* kernel: the console blank timer (0 = disabled)
    ktermios,      \* kernel: the termios of the VT of the live handle
    vt,            \* the live Vt handle, or NoVt
    origin,        \* which constructor built the live (or just dropped) handle
    failed,        \* whether an operation on that handle returned an error
    pc,            \* "idle" between operations, "probing" inside the loop of
                   \* new_vt_with_minimum_number, "returned" when an operation
                   \* has returned to the caller, "aborted" after a panic
    min,           \* new_vt_with_minimum_number: the argument
    n,             \* new_vt_with_minimum_number: the local n
    first_free,    \* new_vt_with_minimum_number: the local first_free
    files,         \* new_vt_with_minimum_number: the local Vec<File> (descriptors)
    log,           \* system calls issued by the operation in progress / last run
    result,        \* what the last operation returned
    req            \* the argument the caller passed to that operation

vars == <<busy, openFiles, consoleblank, ktermios, vt, origin, failed,
          pc, min, n, first_free, files, log, result, req>>

NoVt == [number |-> -1, file |-> -1, termios |-> <<>>]

\* The argument of an operation: a number (a minimum, a VT number, a timer),
\* a flag (blank, echo) or a set of signals.
NoArg == [num |-> 0, flag |-> FALSE, sigs |-> {}]
NumArg(k) == [NoArg EXCEPT !.num = k]
FlagArg(b) == [NoArg EXCEPT !.flag = b]
SigsArg(S) == [NoArg EXCEPT !.sigs = S]

\* ---------------------------------------------------------------- termios
\* The fields of a Termios the crate reads or writes.
MkTermios(echo, isig, ignbrk, vintr, vquit, vsusp, veof) ==
    [echo |-> echo, isig |-> isig, ignbrk |-> ignbrk,
     vintr |-> vintr, vquit |-> vquit, vsusp |-> vsusp, veof |-> veof]

\* What the kernel may hold for a VT when the program opens it: the line
\* discipline's defaults, or a terminal another program has put in raw mode.
KernelTermios ==
    { MkTermios(TRUE, TRUE, FALSE, 3, 28, 26, 4),
      MkTermios(FALSE, FALSE, TRUE, 0, 0, 0, 0) }

CookedTermios == MkTermios(TRUE, TRUE, FALSE, 3, 28, 26, 4)

\* ------------------------------------------------------------ system calls
\* The raw outcome of a system call: the return value and errno.
Success == [res |-> 0, errno |-> 0]
Failure(e) == [res |-> -1, errno |-> e]
Failures == { Failure(EINTR), Failure(EACCES) }

\* The outcome of the i-th system call of an operation, when the environment
\* makes call number `fail` fail with outcome `err` (fail = 0: none fails).
Out(i, fail, err) == IF i = fail THEN err ELSE Success

\* One entry of the log.
Ev(call, fd, arg, o, data) ==
    [call |-> call, fd |-> fd, arg |-> arg, res |-> o.res, errno |-> o.errno,
     data |-> data]

Ok(op, val) == [op |-> op, kind |-> "Ok", val |-> val]
Err(op, code) == [op |-> op, kind |-> "Err", val |-> code]
Panic(op) == [op |-> op, kind |-> "Panic", val |-> 0]

\* ffi.rs: the retry loop of both wrappers leaves when the return value of
\* ioctl differs from EINTR.
IoctlRetries(o) == ~(o.res # EINTR)

\* ffi.rs: the result of a wrapper, from the return value that left the loop.
IoctlWrapper(op, o, data) ==
    IF o.res = -1 THEN Err(op, o.res) ELSE Ok(op, data)

\* The outcome that leaves the loop: an outcome that is retried is followed by
\* one more call, which the environment lets succeed.
IoctlFinal(o) == IF IoctlRetries(o) THEN Success ELSE o

\* The log entries of one wrapper call: one per ioctl issued by its loop.
Ioctl(call, fd, arg, o, data) ==
    IF IoctlRetries(o)
    THEN << Ev(call, fd, arg, o, 0), Ev(call, fd, arg, Success, data) >>
    ELSE << Ev(call, fd, arg, o, IF o.res = -1 THEN 0 ELSE data) >>

\* lib.rs: the nix errors of tcgetattr/tcsetattr become io errors of the errno.
NixErr(op, o) == Err(op, o.errno)

\* std: an error of File::open / read / write carries errno.
IoErr(op, o) == Err(op, o.errno)

\* ------------------------------------------------------------------ kernel
InUse(open, k) == k \in busy \/ \E f \in open : f.tty = k

SetMin(S) == CHOOSE x \in S : \A y \in S : x <= y

\* VT_OPENQRY: the first VT that is not in use, -1 when there is none.
OpenQry(open) ==
    LET free == { k \in 1..MaxVT : ~InUse(open, k) }
    IN  IF free = {} THEN -1 ELSE SetMin(free)

RECURSIVE StateMask(_, _)
\* VT_GETSTATE's v_state: bit 0 is always set, bit k is set when VT k is in use.
StateMask(open, k) ==
    IF k = StateBits THEN 0
    ELSE (IF k = 0 \/ InUse(open, k) THEN 2^k ELSE 0) + StateMask(open, k + 1)

VState(open) == StateMask(open, 0)

\* /dev/tty<k> exists for 0..MaxVT.
TtyExists(k) == k \in 0..MaxVT

\* The lowest descriptor that is not open.
NewFd(open) ==
    SetMin({ d \in (ConsoleFd + 1)..(ConsoleFd + 1 + Cardinality(open)) :
               \A f \in open : f.fd # d })

CloseFd(open, fd) == { f \in open : f.fd # fd }

\* ---------------------------------------------------------- u16 arithmetic
U16 == 2^16
BitAnd1(v, mask) == IF mask = 0 THEN 0 ELSE ((v \div mask) % 2) * mask
\* 1 << n in u16, as a release build computes it (the shift amount wraps).
Shl1Wrapping(k) == 2^(k % 16)
\* Mutant of ShlAssign1: the mask is not moved to the next bit.
ShlAssign1Stuck(mask) == mask

\* mask <<= 1 in u16: the bit shifted out is lost.
ShlAssign1(mask) == (mask * 2) % U16

RECURSIVE ScanLoop(_, _, _)
\* lib.rs:96-103: the scan of the bitmask from position k.
ScanLoop(v_state, k, mask) ==
    IF k < StateBits
    THEN IF BitAnd1(v_state, mask) = 0
         THEN [found |-> TRUE, n |-> k]
         ELSE ScanLoop(v_state, k + 1, ShlAssign1(mask))
    ELSE [found |-> FALSE, n |-> k]

\* ------------------------------------------------------------- Vt handles
\* Mutant of OpenOutcome: the open of a device that does not exist succeeds.
OpenOutcomeNeverMissing(number, i, fail) ==
    IF i = fail THEN Failure(EACCES) ELSE Success

\* OpenOptions::open of /dev/tty<number>, as call i of the operation.
OpenOutcome(number, i, fail) ==
    IF ~TtyExists(number) THEN Failure(ENOENT)
    ELSE IF i = fail THEN Failure(EACCES) ELSE Success

\* Mutant of DropVt: the drop only closes the file.
DropVtCloseOnly(v, open, lg, dis) ==
    [open |-> CloseFd(open, v.file),
     log  |-> Append(lg, Ev("close", v.file, v.number, Success, 0))]

\* Mutant of DropVt: the file is closed before the kernel is asked to
\* deallocate the VT.
DropVtCloseFirst(v, open, lg, dis) ==
    [open |-> CloseFd(open, v.file),
     log  |-> Append(lg, Ev("close", v.file, v.number, Success, 0))
                 \o Ioctl("VT_DISALLOCATE", ConsoleFd, v.number, dis, 0)]

\* Drop for Vt, then the drop of its fields: VT_DISALLOCATE for the handle's
\* number with the result discarded, then the File is closed.
DropVt(v, open, lg, dis) ==
    [open |-> CloseFd(open, v.file),
     log  |-> (lg \o Ioctl("VT_DISALLOCATE", ConsoleFd, v.number, dis, 0))
                 \o << Ev("close", v.file, v.number, Success, 0) >>]

\* Mutant of WithNumberAndFile: the termios is not fetched from the kernel.
WithNumberAndFileNoFetch(op, number, fd, open, lg, fail, err, kt) ==
    [vt |-> [number |-> number, file |-> fd, termios |-> CookedTermios],
     open |-> open, log |-> lg, result |-> Ok(op, number)]

\* Vt::with_number_and_file: fetch the termios of the file; on an error the
\* file, owned by the callee, is closed and no Vt exists.
WithNumberAndFile(op, number, fd, open, lg, fail, err, kt) ==
    LET o   == Out(4, fail, err)
        lg1 == Append(lg, Ev("tcgetattr", fd, number, o, IF o.res = -1 THEN 0 ELSE kt))
    IN  IF o.res = -1
        THEN [vt |-> NoVt, open |-> CloseFd(open, fd),
              log |-> Append(lg1, Ev("close", fd, number, Success, 0)),
              result |-> NixErr(op, o)]
        ELSE [vt |-> [number |-> number, file |-> fd, termios |-> kt],
              open |-> open, log |-> lg1, result |-> Ok(op, number)]

\* Vt::with_number: open the device of the number, then with_number_and_file.
WithNumber(op, number, open, lg, fail, err, kt) ==
    LET o  == OpenOutcome(number, 3, fail)
        fd == NewFd(open)
    IN  IF o.res = -1
        THEN [vt |-> NoVt, open |-> open,
              log |-> Append(lg, Ev("open", -1, number, o, 0)),
              result |-> IoErr(op, o)]
        ELSE WithNumberAndFile(op, number, fd,
                 open \cup {[fd |-> fd, tty |-> number]},
                 Append(lg, Ev("open", fd, number, o, 0)), fail, err, kt)

\* Mutant of Baseline: signal generation is left as the kernel had it.
BaselineKeepsSignals(t) == [t EXCEPT !.ignbrk = TRUE, !.echo = FALSE, !.veof = 0]

\* lib.rs:135-137: echo and signal generation off, break ignored, no VEOF.
Baseline(t) == [t EXCEPT !.ignbrk = TRUE, !.echo = FALSE, !.isig = FALSE, !.veof = 0]

\* Mutant of ApplyBaseline: when the commit fails the handle is closed without
\* asking the kernel to deallocate its VT.
ApplyBaselineCloseOnly(op, b, fail, err, dis, kt) ==
    IF b.result.kind # "Ok" THEN b @@ [kt |-> CookedTermios]
    ELSE LET v   == [b.vt EXCEPT !.termios = Baseline(b.vt.termios)]
             o   == Out(5, fail, err)
             lg1 == Append(b.log, Ev("tcsetattr", v.file, v.number, o, v.termios))
         IN  IF o.res = -1
             THEN [vt |-> NoVt, open |-> CloseFd(b.open, v.file),
                   log |-> Append(lg1, Ev("close", v.file, v.number, Success, 0)),
                   result |-> NixErr(op, o), kt |-> CookedTermios]
             ELSE [vt |-> v, open |-> b.open, log |-> lg1,
                   result |-> Ok(op, v.number), kt |-> v.termios]

\* lib.rs:133-140: the tail of new_vt_with_minimum_number on a built handle b:
\* the baseline is set in the cache and committed; when the commit fails the
\* handle is dropped.  kt is the kernel's termios before the commit.
ApplyBaseline(op, b, fail, err, dis, kt) ==
    IF b.result.kind # "Ok" THEN b @@ [kt |-> CookedTermios]
    ELSE LET v   == [b.vt EXCEPT !.termios = Baseline(b.vt.termios)]
             o   == Out(5, fail, err)
             lg1 == Append(b.log, Ev("tcsetattr", v.file, v.number, o, v.termios))
         IN  IF o.res = -1
             THEN LET d == DropVt(v, b.open, lg1, dis)
                  IN  [vt |-> NoVt, open |-> d.open, log |-> d.log,
                       result |-> NixErr(op, o), kt |-> CookedTermios]
             ELSE [vt |-> v, open |-> b.open, log |-> lg1,
                   result |-> Ok(op, v.number), kt |-> v.termios]

\* Mutant of VtNumberPanics: any integer makes a VtNumber.
VtNumberPanicsNever(number) == FALSE

\* VtNumber::new panics on a negative number.
VtNumberPanics(number) == number < 0

\* ------------------------------------------------------------------- Init
\* The VTs that other programs may have left free in an initial state: two
\* low ones, the last one of the bitmask's window, and the kernel's last one.
FreeVTs == {2, 3, StateBits - 1, MaxVT}

\* The Console is open, no Vt exists.  Other programs hold all VTs but some
\* of FreeVTs; the blank timer has any value.
Init ==
    /\ \E free \in SUBSET FreeVTs : busy = (1..MaxVT) \ free
    /\ openFiles = {}
    /\ consoleblank \in 0..MaxTimer
    /\ ktermios = CookedTermios
    /\ vt = NoVt
    /\ origin = "none"
    /\ failed = FALSE
    /\ pc = "idle"
    /\ min = 0
    /\ n = 0
    /\ first_free = 0
    /\ files = << >>
    /\ log = << >>
    /\ result = [op |-> "none", kind |-> "None", val |-> 0]
    /\ req = NoArg

\* The values of `min` the callers pass.
MinArgs == (-1)..(MaxVT + 1)

\* An operation returns: the locals of new_vt_with_minimum_number are dead.
Return(built, org) == \E b \in {built} :
    /\ pc' = "returned"
    /\ openFiles' = b.open
    /\ log' = b.log
    /\ result' = b.result
    /\ vt' = b.vt
    /\ ktermios' = b.kt
    /\ origin' = org
    /\ failed' = IF org = origin THEN failed ELSE FALSE
    /\ n' = 0
    /\ first_free' = 0
    /\ files' = << >>

\* A constructor returns: a handle built by `org`, or an error and no handle.
Built(built, org) == \E b \in {built} :
    Return(b, IF b.vt = NoVt THEN "none" ELSE org)

\* The operation panics: the thread unwinds, the process ends.
Abort(op, lg) ==
    /\ pc' = "aborted"
    /\ log' = lg
    /\ result' = Panic(op)
    /\ n' = 0
    /\ first_free' = 0
    /\ files' = << >>
    /\ UNCHANGED <<openFiles, vt, ktermios, origin, failed>>

\* ------------------------------------------------ new_vt_with_minimum_number
\* Mutants of FastPath: the answer is taken whenever it is a VT number; the
\* answer is taken only when it is above the minimum.
FastPathAnyNumber(nq, m) == nq >= 0
FastPathStrict(nq, m) == nq > m

\* lib.rs:86: the number of the first VT_OPENQRY is taken as it is.
FastPath(nq, m) == nq >= m

\* Mutant of ProbeAgain: the loop goes on when first_free has reached n.
ProbeAgainInclusive(ff, nn) == ff <= nn

\* lib.rs:122: the condition of the probing loop.
ProbeAgain(ff, nn) == ff < nn

\* lib.rs:80-106 and 133-140: the first VT_OPENQRY, the fast path, the scan of
\* VT_GETSTATE's bitmask; when the scan finds nothing the probing loop is
\* entered.  dbg: the build checks arithmetic overflow (a debug build).
NewVtBegin(m, fail, err, dis, dbg, kt) ==
    /\ pc = "idle"
    /\ vt = NoVt
    /\ min' = m
    /\ req' = NumArg(m)
    /\ UNCHANGED <<busy, consoleblank>>
    /\ LET op   == "new_vt"
           o1   == Out(1, fail, err)
           q    == IoctlWrapper(op, IoctlFinal(o1), OpenQry(openFiles))
           lg1  == Ioctl("VT_OPENQRY", ConsoleFd, 0, o1, OpenQry(openFiles))
       IN  IF q.kind = "Err"
           THEN Return([vt |-> NoVt, open |-> openFiles, log |-> lg1,
                        result |-> q, kt |-> CookedTermios], "none")
           ELSE IF FastPath(q.val, m)
           THEN \* fast path
                IF VtNumberPanics(q.val)
                THEN Abort(op, lg1)
                ELSE Built(ApplyBaseline(op,
                               WithNumber(op, q.val, openFiles, lg1, fail, err, kt),
                               fail, err, dis, kt), "new_vt")
           ELSE LET o2  == Out(2, fail, err)
                    g   == IoctlWrapper(op, IoctlFinal(o2), VState(openFiles))
                    lg2 == lg1 \o Ioctl("VT_GETSTATE", ConsoleFd, 0, o2, VState(openFiles))
                IN  IF g.kind = "Err"
                    THEN Return([vt |-> NoVt, open |-> openFiles, log |-> lg2,
                                 result |-> g, kt |-> CookedTermios], "none")
                    ELSE IF dbg /\ m >= StateBits
                    THEN \* 1 << n overflows the u16 of the mask
                         Abort(op, lg2)
                    ELSE LET sc == ScanLoop(g.val, m, Shl1Wrapping(m))
                         IN  IF sc.found
                             THEN Built(ApplyBaseline(op,
                                      WithNumber(op, sc.n, openFiles, lg2, fail, err, kt),
                                      fail, err, dis, kt), "new_vt")
                             ELSE    /\ pc' = "probing"
                                     /\ n' = sc.n
                                     /\ first_free' = 0
                                     /\ files' = << >>
                                     /\ log' = lg2
                                     /\ result' = [op |-> op, kind |-> "None", val |-> 0]
                                     /\ UNCHANGED <<openFiles, vt, ktermios, origin, failed>>

\* Mutant of CloseAll: the files of the Vec are not closed.
CloseAllNone(open, fds) == open

\* The drop of a Vec<File>: the descriptors of fds are closed.
CloseAll(open, fds) == { f \in open : \A i \in 1..Len(fds) : fds[i] # f.fd }

RECURSIVE CloseLog(_, _, _)
\* The drop of a Vec<File>: the files are closed in order.
CloseLog(open, fds, lg) ==
    IF fds = << >> THEN lg
    ELSE CloseLog(open, Tail(fds),
             Append(lg, Ev("close", Head(fds),
                           (CHOOSE f \in open : f.fd = Head(fds)).tty, Success, 0)))

\* lib.rs:122-125: one iteration of the probing loop: VT_OPENQRY, then the
\* device of the number it returned is opened and pushed on `files`.
NewVtProbe(fail, err) ==
    /\ pc = "probing"
    /\ ProbeAgain(first_free, n)
    /\ UNCHANGED <<busy, consoleblank, req>>
    /\ LET op  == "new_vt"
           o1  == Out(1, fail, err)
           q   == IoctlWrapper(op, IoctlFinal(o1), OpenQry(openFiles))
           lg1 == log \o Ioctl("VT_OPENQRY", ConsoleFd, 0, o1, OpenQry(openFiles))
       IN  IF q.kind = "Err"
           THEN /\ Return([vt |-> NoVt, open |-> CloseAll(openFiles, files),
                           log |-> CloseLog(openFiles, files, lg1),
                           result |-> q, kt |-> CookedTermios], "none")
                /\ UNCHANGED min
           ELSE LET o2 == OpenOutcome(q.val, 2, fail)
                    fd == NewFd(openFiles)
                IN  IF o2.res = -1
                    THEN /\ Return([vt |-> NoVt, open |-> CloseAll(openFiles, files),
                                    log |-> CloseLog(openFiles, files,
                                               Append(lg1, Ev("open", -1, q.val, o2, 0))),
                                    result |-> IoErr(op, o2), kt |-> CookedTermios], "none")
                         /\ UNCHANGED min
                    ELSE /\ first_free' = q.val
                         /\ files' = Append(files, fd)
                         /\ openFiles' = openFiles \cup {[fd |-> fd, tty |-> q.val]}
                         /\ log' = Append(lg1, Ev("open", fd, q.val, o2, 0))
                         /\ UNCHANGED <<pc, min, n, result, vt, ktermios, origin, failed>>

\* lib.rs:127-140: after the loop: the last file of `files` becomes the file
\* of the Vt, the other files are dropped at the end of the block, then the
\* baseline is committed.
NewVtFinish(fail, err, dis, kt) ==
    /\ pc = "probing"
    /\ ~ProbeAgain(first_free, n)
    /\ UNCHANGED <<busy, consoleblank, min, req>>
    /\ LET op   == "new_vt"
           last == files[Len(files)]
           rest == SubSeq(files, 1, Len(files) - 1)
           b    == WithNumberAndFile(op, first_free, last, openFiles, log, fail, err, kt)
           b2   == [b EXCEPT !.open = CloseAll(b.open, rest),
                             !.log = CloseLog(openFiles, rest, b.log)]
       IN  IF VtNumberPanics(first_free)
           THEN Abort(op, log)
           ELSE Built(ApplyBaseline(op, b2, fail, err, dis, kt), "new_vt")

\* -------------------------------------------------------- other operations
\* An operation on the live handle returns with log lg and result r.
Done(issued, returned) == \E lg \in {issued}, r \in {returned} :
    /\ log' = lg
    /\ result' = r
    /\ failed' = (failed \/ (vt # NoVt /\ r.kind = "Err"))
    /\ pc' = "returned"
    /\ UNCHANGED <<busy, min, n, first_free, files, origin>>

\* The numbers callers pass to open_vt and switch_to.
VtArgs == {-1, 1, StateBits, MaxVT + 1}

\* lib.rs:144-146: Console::open_vt.  The caller builds the VtNumber.
OpenVt(k, fail, err, kt) ==
    /\ pc = "idle"
    /\ vt = NoVt
    /\ req' = NumArg(k)
    /\ UNCHANGED <<busy, consoleblank, min>>
    /\ IF VtNumberPanics(k)
       THEN Abort("open_vt", << >>)
       ELSE LET b == WithNumber("open_vt", k, openFiles, << >>, fail, err, kt)
            IN  Built(b @@ [kt |-> IF b.vt = NoVt THEN CookedTermios ELSE kt],
                      "open_vt")

\* lib.rs:407-413: the handle goes out of scope.
Drop(dis) ==
    /\ pc = "idle"
    /\ vt # NoVt
    /\ req' = NoArg
    /\ UNCHANGED <<busy, consoleblank, min>>
    /\ LET d == DropVt(vt, openFiles, << >>, dis)
       IN  Return([vt |-> NoVt, open |-> d.open, log |-> d.log,
                   result |-> Ok("drop", vt.number), kt |-> CookedTermios], origin)

\* Mutant of SwitchToCalls: VT_WAITACTIVE is issued whatever VT_ACTIVATE
\* returned.
SwitchToCallsNoShortCircuit(op, number, fail, err) ==
    LET o1 == Out(1, fail, err)
        o2 == Out(2, fail, err)
    IN  [log |-> Ioctl("VT_ACTIVATE", ConsoleFd, number, o1, 0)
                    \o Ioctl("VT_WAITACTIVE", ConsoleFd, number, o2, 0),
         result |-> IF o1.res = -1 THEN IoctlWrapper(op, IoctlFinal(o1), 0)
                    ELSE IoctlWrapper(op, IoctlFinal(o2), 0)]

\* lib.rs:149-153: the calls and the result of Console::switch_to(number).
SwitchToCalls(op, number, fail, err) ==
    LET o1 == Out(1, fail, err)
        a  == IoctlWrapper(op, IoctlFinal(o1), 0)
        l1 == Ioctl("VT_ACTIVATE", ConsoleFd, number, o1, 0)
        o2 == Out(2, fail, err)
        w  == IoctlWrapper(op, IoctlFinal(o2), 0)
        l2 == l1 \o Ioctl("VT_WAITACTIVE", ConsoleFd, number, o2, 0)
    IN  IF a.kind = "Err" THEN [log |-> l1, result |-> a]
        ELSE [log |-> l2, result |-> w]

\* Console::switch_to with a number built by the caller.
SwitchTo(k, fail, err) ==
    /\ pc = "idle"
    /\ req' = NumArg(k)
    /\ UNCHANGED <<openFiles, consoleblank, vt, ktermios>>
    /\ IF VtNumberPanics(k)
       THEN /\ pc' = "aborted"
            /\ log' = << >>
            /\ result' = Panic("switch_to")
            /\ UNCHANGED <<busy, min, n, first_free, files, origin, failed>>
       ELSE LET c == SwitchToCalls("switch_to", k, fail, err)
            IN  /\ log' = c.log
                /\ result' = c.result
                /\ pc' = "returned"
                /\ UNCHANGED <<busy, min, n, first_free, files, origin, failed>>

\* lib.rs:298-301: Vt::switch.
Switch(fail, err) ==
    /\ pc = "idle"
    /\ vt # NoVt
    /\ req' = NoArg
    /\ UNCHANGED <<openFiles, consoleblank, vt, ktermios>>
    /\ LET c == SwitchToCalls("switch", vt.number, fail, err)
       IN  Done(c.log, c.result)

\* lib.rs:289-291: Vt::number.
Number ==
    /\ pc = "idle"
    /\ vt # NoVt
    /\ req' = NoArg
    /\ UNCHANGED <<openFiles, consoleblank, vt, ktermios>>
    /\ Done(<< >>, Ok("number", vt.number))

\* lib.rs:314-317: the write of the escape sequence ESC [ 9 ; timer ] to the
\* file of the handle, as call i; the console takes the timer when it succeeds.
SetBlankTimerCall(v, timer, cb, lg, i, fail, err) ==
    LET o == Out(i, fail, err)
    IN  [log |-> Append(lg, Ev("write_blank_timer", v.file, timer, o, 0)),
         consoleblank |-> IF o.res = -1 THEN cb ELSE timer,
         result |-> IF o.res = -1 THEN IoErr("set_blank_timer", o)
                    ELSE Ok("set_blank_timer", timer)]

SetBlankTimer(timer, fail, err) ==
    /\ pc = "idle"
    /\ vt # NoVt
    /\ req' = NumArg(timer)
    /\ UNCHANGED <<openFiles, vt, ktermios>>
    /\ LET c == SetBlankTimerCall(vt, timer, consoleblank, << >>, 1, fail, err)
       IN  /\ consoleblank' = c.consoleblank
           /\ Done(c.log, c.result)

\* ffi.rs:13-14: the TIOCLINUX subcodes.
TIOCL_BLANKSCREEN == 14
TIOCL_UNBLANKSCREEN == 4

\* lib.rs:324-325: the kernel refuses to blank while the blank timer is disabled.
TioclinuxOutcome(arg, cb, i, fail, err) ==
    IF arg = TIOCL_BLANKSCREEN /\ cb = 0 THEN Failure(EACCES) ELSE Out(i, fail, err)

\* Mutants of NeedsTimerReset: the timer is never raised; the timer is raised
\* and reset whatever it read.
NeedsTimerResetNever(blank, cb) == FALSE
NeedsTimerResetAnyTimer(blank, cb) == blank

\* lib.rs:326: the timer is raised, and restored afterwards, when the screen
\* is to be blanked and the timer read 0.
NeedsTimerReset(blank, cb) == blank /\ cb = 0

\* Mutant of BlankCalls: when the blank request fails after the timer was
\* raised, the timer is written back to 0 before the error is returned.
BlankCallsRestoresOnFailure(v, blank, cb, fail, err) ==
    LET op  == "blank"
        o1  == Out(1, fail, err)
        l1  == IF blank
               THEN << Ev("read_blank_timer", -1, 0, o1, IF o1.res = -1 THEN 0 ELSE cb) >>
               ELSE << >>
        needs_timer_reset == NeedsTimerReset(blank, cb)
        s2  == IF needs_timer_reset
               THEN SetBlankTimerCall(v, 1, cb, l1, 2, fail, err)
               ELSE [log |-> l1, consoleblank |-> cb, result |-> Ok(op, 0)]
        arg == IF blank THEN TIOCL_BLANKSCREEN ELSE TIOCL_UNBLANKSCREEN
        o3  == TioclinuxOutcome(arg, s2.consoleblank, 3, fail, err)
        t   == IoctlWrapper(op, IoctlFinal(o3), 0)
        l3  == s2.log \o Ioctl("TIOCLINUX", v.file, arg, o3, 0)
        s4  == IF needs_timer_reset
               THEN SetBlankTimerCall(v, 0, s2.consoleblank, l3, 4, fail, err)
               ELSE [log |-> l3, consoleblank |-> s2.consoleblank, result |-> Ok(op, 0)]
    IN  IF blank /\ o1.res = -1
        THEN [log |-> l1, consoleblank |-> cb, result |-> IoErr(op, o1)]
        ELSE IF s2.result.kind = "Err"
        THEN [log |-> s2.log, consoleblank |-> s2.consoleblank,
              result |-> Err(op, s2.result.val)]
        ELSE IF t.kind = "Err"
        THEN [log |-> s4.log, consoleblank |-> s4.consoleblank, result |-> t]
        ELSE IF s4.result.kind = "Err"
        THEN [log |-> s4.log, consoleblank |-> s4.consoleblank,
              result |-> Err(op, s4.result.val)]
        ELSE [log |-> s4.log, consoleblank |-> s4.consoleblank, result |-> Ok(op, 0)]

\* lib.rs:322-342: Vt::blank, on handle v with the console timer at cb.
BlankCalls(v, blank, cb, fail, err) ==
    LET op  == "blank"
        o1  == Out(1, fail, err)
        l1  == IF blank
               THEN << Ev("read_blank_timer", -1, 0, o1, IF o1.res = -1 THEN 0 ELSE cb) >>
               ELSE << >>
        needs_timer_reset == NeedsTimerReset(blank, cb)
        s2  == IF needs_timer_reset
               THEN SetBlankTimerCall(v, 1, cb, l1, 2, fail, err)
               ELSE [log |-> l1, consoleblank |-> cb, result |-> Ok(op, 0)]
        arg == IF blank THEN TIOCL_BLANKSCREEN ELSE TIOCL_UNBLANKSCREEN
        o3  == TioclinuxOutcome(arg, s2.consoleblank, 3, fail, err)
        t   == IoctlWrapper(op, IoctlFinal(o3), 0)
        l3  == s2.log \o Ioctl("TIOCLINUX", v.file, arg, o3, 0)
        s4  == IF needs_timer_reset
               THEN SetBlankTimerCall(v, 0, s2.consoleblank, l3, 4, fail, err)
               ELSE [log |-> l3, consoleblank |-> s2.consoleblank, result |-> Ok(op, 0)]
    IN  IF blank /\ o1.res = -1
        THEN [log |-> l1, consoleblank |-> cb, result |-> IoErr(op, o1)]
        ELSE IF s2.result.kind = "Err"
        THEN [log |-> s2.log, consoleblank |-> s2.consoleblank,
              result |-> Err(op, s2.result.val)]
        ELSE IF t.kind = "Err"
        THEN [log |-> l3, consoleblank |-> s2.consoleblank, result |-> t]
        ELSE IF s4.result.kind = "Err"
        THEN [log |-> s4.log, consoleblank |-> s4.consoleblank,
              result |-> Err(op, s4.result.val)]
        ELSE [log |-> s4.log, consoleblank |-> s4.consoleblank, result |-> Ok(op, 0)]

Blank(blank, fail, err) ==
    /\ pc = "idle"
    /\ vt # NoVt
    /\ req' = FlagArg(blank)
    /\ UNCHANGED <<openFiles, vt, ktermios>>
    /\ LET c == BlankCalls(vt, blank, consoleblank, fail, err)
       IN  /\ consoleblank' = c.consoleblank
           /\ Done(c.log, c.result)

\* lib.rs:279-286: Vt::update_termios: tcsetattr(TCSANOW) of the cached termios.
UpdateTermios(op, v, kt, lg, i, fail, err) ==
    LET o == Out(i, fail, err)
    IN  [log |-> Append(lg, Ev("tcsetattr", v.file, v.number, o, v.termios)),
         kt |-> IF o.res = -1 THEN kt ELSE v.termios,
         result |-> IF o.res = -1 THEN NixErr(op, o) ELSE Ok(op, 0)]

\* Mutant of SetEchoCalls: nothing is committed when the cache already holds
\* the requested value.
SetEchoCallsSkipUnchanged(v, echo, kt, fail, err) ==
    IF v.termios.echo = echo
    THEN [vt |-> v, log |-> << >>, kt |-> kt, result |-> Ok("set_echo", 0)]
    ELSE LET w == [v EXCEPT !.termios.echo = echo]
         IN  [vt |-> w] @@ UpdateTermios("set_echo", w, kt, << >>, 1, fail, err)

\* Mutant of SetEchoCalls: the cache is put back when the commit fails.
SetEchoCallsRollsBack(v, echo, kt, fail, err) ==
    LET w == [v EXCEPT !.termios.echo = echo]
        c == UpdateTermios("set_echo", w, kt, << >>, 1, fail, err)
    IN  [vt |-> IF c.result.kind = "Err" THEN v ELSE w] @@ c

\* lib.rs:347-356: Vt::set_echo on handle v: the ECHO flag of the cached
\* termios is set or cleared, then the cache is committed.
SetEchoCalls(v, echo, kt, fail, err) ==
    LET w == [v EXCEPT !.termios.echo = echo]
    IN  [vt |-> w] @@ UpdateTermios("set_echo", w, kt, << >>, 1, fail, err)

SetEcho(echo, fail, err) ==
    /\ pc = "idle"
    /\ vt # NoVt
    /\ req' = FlagArg(echo)
    /\ UNCHANGED <<openFiles, consoleblank>>
    /\ LET c == SetEchoCalls(vt, echo, ktermios, fail, err)
       IN  /\ vt' = c.vt
           /\ ktermios' = c.kt
           /\ Done(c.log, c.result)

\* lib.rs:359-361: Vt::is_echo_enabled reads the ECHO flag of the cache.
IsEchoEnabled(v) == v.termios.echo

\* The caller asks is_echo_enabled; the result holds 1 for true, 0 for false.
IsEchoEnabledCall ==
    /\ pc = "idle"
    /\ vt # NoVt
    /\ req' = NoArg
    /\ UNCHANGED <<openFiles, consoleblank, vt, ktermios>>
    /\ Done(<< >>, Ok("is_echo_enabled", IF IsEchoEnabled(vt) THEN 1 ELSE 0))

\* lib.rs:232-236: the flags of VtSignals.
VtSignals == {"SIGINT", "SIGQUIT", "SIGTSTP"}

\* Mutant of SignalsTermios: signal generation is enabled only when a signal
\* is requested.
SignalsTermiosOffWhenEmpty(t, signals) ==
    [t EXCEPT !.isig = (signals # {}),
              !.vintr = IF "SIGINT" \in signals THEN CcIntr ELSE 0,
              !.vquit = IF "SIGQUIT" \in signals THEN CcQuit ELSE 0,
              !.vsusp = IF "SIGTSTP" \in signals THEN CcSusp ELSE 0]

\* lib.rs:369-386: ISIG is set, and the control character of each signal is
\* set to its character when the signal is requested and to 0 when it is not.
SignalsTermios(t, signals) ==
    [t EXCEPT !.isig = TRUE,
              !.vintr = IF "SIGINT" \in signals THEN CcIntr ELSE 0,
              !.vquit = IF "SIGQUIT" \in signals THEN CcQuit ELSE 0,
              !.vsusp = IF "SIGTSTP" \in signals THEN CcSusp ELSE 0]

\* lib.rs:366-390: Vt::signals on handle v.
SignalsCalls(v, signals, kt, fail, err) ==
    LET w == [v EXCEPT !.termios = SignalsTermios(v.termios, signals)]
    IN  [vt |-> w] @@ UpdateTermios("signals", w, kt, << >>, 1, fail, err)

Signals(signals, fail, err) ==
    /\ pc = "idle"
    /\ vt # NoVt
    /\ req' = SigsArg(signals)
    /\ UNCHANGED <<openFiles, consoleblank>>
    /\ LET c == SignalsCalls(vt, signals, ktermios, fail, err)
       IN  /\ vt' = c.vt
           /\ ktermios' = c.kt
           /\ Done(c.log, c.result)

\* examples/blank.rs: the caller takes the result of an operation and goes on
\* to its next call.
Continue ==
    /\ pc = "returned"
    /\ pc' = "idle"
    /\ log' = << >>
    /\ result' = [op |-> "none", kind |-> "None", val |-> 0]
    /\ min' = 0
    /\ req' = NoArg
    /\ origin' = IF vt = NoVt THEN "none" ELSE origin
    /\ failed' = IF vt = NoVt THEN FALSE ELSE failed
    /\ UNCHANGED <<busy, openFiles, consoleblank, ktermios, vt, n, first_free, files>>

\* -------------------------------------------------------------------- Next
Outcomes == {Success} \cup Failures

\* The environment's choice for one operation: which of its system calls
\* fails, if any, and how.  When no call fails the outcome is not used.
Faults(calls) ==
    { f \in [at : calls \cup {0}, o : Failures] : f.at = 0 => f.o = Failure(EACCES) }

\* The outcome of the VT_DISALLOCATE of a Drop inside an operation, which
\* happens only when the commit of the baseline (call 5) fails.
DropOutcomes(f) == IF f.at = 5 THEN Outcomes ELSE {Success}

\* Each operation is tried only where the caller can call it.  Vt::signals,
\* which touches nothing but the termios of the handle, is in NextTermios.
Next ==
    \/ /\ pc = "idle" /\ vt = NoVt
       /\ \E m \in MinArgs, f \in Faults(1..5), dbg \in BOOLEAN, kt \in KernelTermios :
            \E dis \in DropOutcomes(f) :
               /\ (m < StateBits => ~dbg)
               /\ NewVtBegin(m, f.at, f.o, dis, dbg, kt)
    \/ /\ pc = "probing" /\ ProbeAgain(first_free, n)
       /\ \E f \in Faults(1..2) : NewVtProbe(f.at, f.o)
    \/ /\ pc = "probing" /\ ~ProbeAgain(first_free, n)
       /\ \E f \in Faults({4, 5}), kt \in KernelTermios :
            \E dis \in DropOutcomes(f) : NewVtFinish(f.at, f.o, dis, kt)
    \/ /\ pc = "idle" /\ vt = NoVt
       /\ \E k \in VtArgs, f \in Faults({3, 4}), kt \in KernelTermios :
            OpenVt(k, f.at, f.o, kt)
    \/ /\ pc = "idle" /\ vt # NoVt
       /\ \E dis \in Outcomes : Drop(dis)
    \/ /\ pc = "idle"
       /\ \E k \in VtArgs, f \in Faults(1..2) : SwitchTo(k, f.at, f.o)
    \/ /\ pc = "idle" /\ vt # NoVt
       /\ \E f \in Faults(1..2) : Switch(f.at, f.o)
    \/ Number
    \/ /\ pc = "idle" /\ vt # NoVt
       /\ \E timer \in 0..MaxTimer, f \in Faults({1}) : SetBlankTimer(timer, f.at, f.o)
    \/ /\ pc = "idle" /\ vt # NoVt
       /\ \E blank \in BOOLEAN, f \in Faults(1..4) : Blank(blank, f.at, f.o)
    \/ /\ pc = "idle" /\ vt # NoVt
       /\ \E echo \in BOOLEAN, f \in Faults({1}) : SetEcho(echo, f.at, f.o)
    \/ Continue

Spec == Init /\ [][Next]_vars

\* One iteration of the probing loop, and the code after the loop.
ProbeStep == \E f \in Faults(1..2) : NewVtProbe(f.at, f.o)
FinishStep ==
    \E f \in Faults({4, 5}), kt \in KernelTermios :
        \E dis \in DropOutcomes(f) : NewVtFinish(f.at, f.o, dis, kt)

\* The thread that runs new_vt_with_minimum_number is not suspended for
\* ever: a system call of the loop returns and the loop goes on.
LiveSpec == Spec /\ WF_vars(ProbeStep) /\ WF_vars(FinishStep)

\* ------------------------------------------------- the termios of a handle
\* lib.rs:68-70: Console::new_vt, the allocation with minimum 0.
NewVt(fail, err, dis, kt) == NewVtBegin(0, fail, err, dis, FALSE, kt)

\* Other programs have left all of FreeVTs free and the blank timer is off.
InitTermios == Init /\ busy = (1..MaxVT) \ FreeVTs /\ consoleblank = 0

\* The life of the termios of a handle: the handle is built by new_vt or by
\* open_vt, set_echo and signals change and commit its termios, it is dropped.
NextTermios ==
    \/ /\ pc = "idle" /\ vt = NoVt
       /\ \E f \in Faults({1, 3, 4, 5}), kt \in KernelTermios :
            \E dis \in DropOutcomes(f) : NewVt(f.at, f.o, dis, kt)
    \/ /\ pc = "idle" /\ vt = NoVt
       /\ \E k \in VtArgs, f \in Faults({3, 4}), kt \in KernelTermios :
            OpenVt(k, f.at, f.o, kt)
    \/ /\ pc = "idle" /\ vt # NoVt
       /\ \E dis \in Outcomes : Drop(dis)
    \/ /\ pc = "idle" /\ vt # NoVt
       /\ \E echo \in BOOLEAN, f \in Faults({1}) : SetEcho(echo, f.at, f.o)
    \/ /\ pc = "idle" /\ vt # NoVt
       /\ \E signals \in SUBSET VtSignals, f \in Faults({1}) :
            Signals(signals, f.at, f.o)
    \/ IsEchoEnabledCall
    \/ Continue

TermiosSpec == InitTermios /\ [][NextTermios]_vars

\* ------------------------------------------------------------- properties
RECURSIVE CountCalls(_, _)
CountCalls(lg, calls) ==
    IF lg = << >> THEN 0
    ELSE (IF Head(lg).call \in calls THEN 1 ELSE 0) + CountCalls(Tail(lg), calls)

\* The control requests of ffi.rs.
ControlCalls == {"VT_OPENQRY", "VT_GETSTATE", "VT_ACTIVATE", "VT_WAITACTIVE",
                 "VT_DISALLOCATE", "VT_LOCKSWITCH", "VT_UNLOCKSWITCH", "TIOCLINUX"}

Returned(op) == pc = "returned" /\ result.op = op
ReturnedOk(op) == Returned(op) /\ result.kind = "Ok"

\* The positions of the log that hold a call of the given name.
At(lg, call) == { i \in 1..Len(lg) : lg[i].call = call }

\* Bit i of v is clear.
BitClear(v, i) == (v \div (2^i)) % 2 = 0

\* The positions of [m, 15] whose bit is clear in the bitmask v.
ClearFrom(v, m) == { i \in 0..(StateBits - 1) : i >= m /\ BitClear(v, i) }

\* new_vt_with_minimum_number has issued its first query and the query
\* answered nq.
FirstQuery(nq) ==
    /\ result.op = "new_vt"
    /\ pc \in {"probing", "returned"}
    /\ Len(log) >= 1
    /\ log[1].call = "VT_OPENQRY" /\ log[1].res = 0 /\ log[1].data = nq

\* ... and then the get-state query, which answered the bitmask log[2].data.
GotState ==
    /\ Len(log) >= 2
    /\ log[2].call = "VT_GETSTATE" /\ log[2].res = 0

\* C1: whenever new_vt_with_minimum_number(min) with min >= 0 returns a
\* handle, by whichever path, the number of the handle is at least min.
C1_NumberAtLeastMinimum ==
    (ReturnedOk("new_vt") /\ min >= 0) =>
        (vt # NoVt /\ vt.number >= min /\ result.val = vt.number)

\* C1 witness: a handle returned by the probing path for a positive minimum.
C1_Witness ==
    /\ ReturnedOk("new_vt") /\ min >= 1
    /\ CountCalls(log, {"VT_OPENQRY"}) >= 2
    /\ vt.number >= min

\* C2: when the first-free query answers a number n >= min, no get-state
\* query and no second first-free query is issued, and when the allocation
\* returns a handle it has issued exactly one control request and the handle
\* has the number n.
C2_FastPath ==
    \A nq \in (-1)..MaxVT :
        (FirstQuery(nq) /\ nq >= min) =>
            /\ pc = "returned"
            /\ CountCalls(log, {"VT_GETSTATE"}) = 0
            /\ CountCalls(log, {"VT_OPENQRY"}) = 1
            /\ (result.kind = "Ok" =>
                   /\ CountCalls(log, ControlCalls) = 1
                   /\ vt.number = nq)

\* C2 witness: a handle returned by the fast path with the number of the query
\* equal to a positive minimum.
C2_Witness ==
    /\ ReturnedOk("new_vt") /\ min >= 1
    /\ FirstQuery(min)
    /\ vt.number = min

\* C3: when the first-free query answers n < min < 16 and k is the lowest
\* position of [min, 15] whose bit is clear in the bitmask, the allocation
\* does not probe: it has issued one first-free query and one get-state
\* query, opens no device but that of k, and the handle it returns has the
\* number k.
C3_BitmaskPath ==
    \A nq \in (-1)..MaxVT :
        (FirstQuery(nq) /\ nq < min /\ min < StateBits /\ GotState
            /\ ClearFrom(log[2].data, min) # {}) =>
            LET k == SetMin(ClearFrom(log[2].data, min))
            IN  /\ pc = "returned"
                /\ CountCalls(log, {"VT_OPENQRY"}) = 1
                /\ CountCalls(log, {"VT_GETSTATE"}) = 1
                /\ \A i \in At(log, "open") : log[i].arg = k
                /\ CountCalls(log, {"open"}) <= 1
                /\ (result.kind = "Ok" => vt.number = k)

\* C3 witness: a handle returned by the bitmask path, whose number is above
\* the minimum: the scan has passed over set bits.
C3_Witness ==
    /\ ReturnedOk("new_vt")
    /\ CountCalls(log, {"VT_GETSTATE"}) = 1
    /\ CountCalls(log, {"VT_OPENQRY"}) = 1
    /\ vt.number > min /\ min >= 1

\* The positions of the probing queries: the first-free queries after the
\* get-state query.
ProbeQueries == { i \in At(log, "VT_OPENQRY") : i >= 3 }

\* The allocation is on the slow path: the first query answered a number
\* below min and the bitmask has no clear bit in [min, 15].
SlowPath ==
    \E nq \in (-1)..MaxVT :
        /\ FirstQuery(nq) /\ nq < min /\ GotState
        /\ ClearFrom(log[2].data, min) = {}

\* C4: on the slow path the allocation runs cycles of a first-free query
\* followed by the open of the device of the number it answered, and stops
\* at the first answer >= min, which is the number of the handle it returns;
\* at the return every device opened for a number below min has been
\* closed, and the only open device file is the one opened by the probe of
\* the returned number, which is the file of the handle (opened once).
C4_SlowPath ==
    SlowPath =>
        /\ \A i \in ProbeQueries :
              \* the query is followed by the open of the number it answered
              /\ (log[i].res = 0 /\ Len(log) > i) =>
                    (log[i + 1].call = "open" /\ log[i + 1].arg = log[i].data)
              \* an answer >= min that was opened ends the probing
              /\ (log[i].res = 0 /\ log[i].data >= min /\ Len(log) > i
                     /\ log[i + 1].res = 0) =>
                    \A j \in ProbeQueries : j <= i
        /\ ReturnedOk("new_vt") =>
              /\ ProbeQueries # {}
              /\ \E i \in ProbeQueries :
                    /\ log[i].data = vt.number
                    /\ log[i].data >= min
                    /\ \A j \in ProbeQueries : j < i => log[j].data < min
                    /\ log[i + 1].fd = vt.file
              /\ openFiles = {[fd |-> vt.file, tty |-> vt.number]}
              /\ Cardinality({ i \in At(log, "open") : log[i].arg = vt.number }) = 1
              /\ \A i \in At(log, "open") :
                    log[i].arg < min =>
                        /\ log[i].fd # vt.file
                        /\ \E j \in At(log, "close") : j > i /\ log[j].fd = log[i].fd

\* C4 witness: a handle returned after two probes below the minimum.
C4_Witness ==
    /\ SlowPath /\ ReturnedOk("new_vt")
    /\ Cardinality(ProbeQueries) = 3
    /\ Cardinality(At(log, "close")) = 2
    /\ vt.number >= min

\* C5: the drop of a handle built by open_vt issues no VT_DISALLOCATE: it
\* only closes the file of the handle.
C5_OpenedHandleDropNeverDeallocates ==
    (Returned("drop") /\ origin = "open_vt") =>
        /\ CountCalls(log, {"VT_DISALLOCATE"}) = 0
        /\ \A i \in 1..Len(log) : log[i].call = "close"

\* C6: the drop of a handle returned by new_vt_with_minimum_number issues
\* exactly one VT_DISALLOCATE, for the number of the handle, whatever the
\* operations on the handle returned before, and the outcome of the request
\* does not show: the drop returns and the handle is gone.
C6_AllocatedHandleDropDeallocatesOnce ==
    [][(pc = "idle" /\ vt # NoVt /\ origin = "new_vt"
          /\ pc' = "returned" /\ result'.op = "drop") =>
            /\ CountCalls(log', {"VT_DISALLOCATE"}) = 1
            /\ \A i \in At(log', "VT_DISALLOCATE") : log'[i].arg = vt.number
            /\ result'.kind = "Ok"
            /\ vt' = NoVt /\ openFiles' = {}]_vars

\* C6 witness: an allocated handle is dropped after one of its operations
\* failed, and the kernel refuses the VT_DISALLOCATE.
C6_Witness ==
    /\ Returned("drop") /\ origin = "new_vt" /\ failed
    /\ \E i \in At(log, "VT_DISALLOCATE") : log[i].res = -1
    /\ result.kind = "Ok"

\* C7: switch_to(n) and Vt::switch issue VT_ACTIVATE(n) first; when it fails
\* nothing else is issued and its error is returned; otherwise
\* VT_WAITACTIVE(n) follows, for the same n, and its result is returned.
C7_SwitchOrder ==
    ((Returned("switch_to") \/ Returned("switch")) /\ result.kind # "Panic") =>
        /\ Len(log) >= 1
        /\ log[1].call = "VT_ACTIVATE"
        /\ (result.op = "switch" => log[1].arg = vt.number)
        /\ IF log[1].res = -1
           THEN /\ Len(log) = 1
                /\ result.kind = "Err" /\ result.val = log[1].res
           ELSE /\ Len(log) = 2
                /\ log[2].call = "VT_WAITACTIVE"
                /\ log[2].arg = log[1].arg
                /\ (result.kind = "Ok" <=> log[2].res = 0)

\* C7 witness: a switch whose VT_ACTIVATE failed.
C7_Witness ==
    /\ Returned("switch") /\ result.kind = "Err"
    /\ Len(log) = 1 /\ log[1].call = "VT_ACTIVATE" /\ log[1].res = -1

\* The calls of the log, each with its argument.
CallArgs(lg) == [i \in 1..Len(lg) |-> <<lg[i].call, lg[i].arg>>]

IsPrefix(s, t) == Len(s) <= Len(t) /\ s = SubSeq(t, 1, Len(s))

NoCallFailed(lg) == \A i \in 1..Len(lg) : lg[i].res = 0

\* blank(true) has read the console timer as t.
BlankRead(t) ==
    /\ Returned("blank")
    /\ Len(log) >= 1
    /\ log[1].call = "read_blank_timer" /\ log[1].res = 0 /\ log[1].data = t

BlankSequence ==
    << <<"read_blank_timer", 0>>, <<"write_blank_timer", 1>>,
       <<"TIOCLINUX", TIOCL_BLANKSCREEN>>, <<"write_blank_timer", 0>> >>

\* C8: blank(true) that reads the timer as 0 performs [read-timer,
\* set-timer(1), blank-on, set-timer(0)], stopping only at a call that
\* fails, and when none fails it returns Ok and the console timer is 0.
C8_BlankWithTimerOff ==
    BlankRead(0) =>
        /\ IsPrefix(CallArgs(log), BlankSequence)
        /\ (\A i \in 1..(Len(log) - 1) : log[i].res = 0)
        /\ NoCallFailed(log) =>
              /\ CallArgs(log) = BlankSequence
              /\ consoleblank = 0
              /\ result.kind = "Ok"

\* C8 witness: blank(true) with the timer at 0 has run to its end.
C8_Witness ==
    /\ BlankRead(0) /\ result.kind = "Ok" /\ Len(log) = 4 /\ consoleblank = 0

\* C9: blank writes the console timer only when it blanks and read the timer
\* as 0.  blank(true) that reads t # 0 performs [read-timer, blank-on];
\* blank(false) performs [blank-off]; neither changes the timer.
C9_BlankLeavesTimer ==
    [][(pc = "idle" /\ pc' = "returned" /\ result'.op = "blank"
          /\ ~(log'[1].call = "read_blank_timer" /\ log'[1].res = 0
                 /\ log'[1].data = 0)) =>
            /\ consoleblank' = consoleblank
            /\ CountCalls(log', {"write_blank_timer"}) = 0
            /\ IF log'[1].call = "read_blank_timer"
               THEN /\ log'[1].res = 0 => log'[1].data = consoleblank
                    /\ IsPrefix(CallArgs(log'),
                          << <<"read_blank_timer", 0>>,
                             <<"TIOCLINUX", TIOCL_BLANKSCREEN>> >>)
                    /\ log'[1].res = 0 => Len(log') = 2
               ELSE CallArgs(log') = << <<"TIOCLINUX", TIOCL_UNBLANKSCREEN>> >>]_vars

\* C9 witness: blank(true) with the timer at 2 has returned Ok.
C9_Witness ==
    /\ BlankRead(2) /\ result.kind = "Ok" /\ Len(log) = 2 /\ consoleblank = 2

\* C10 as claimed: open_vt opens no device file and fetches no attributes.
C10_OpenVtStartsUnopened ==
    ReturnedOk("open_vt") =>
        /\ CountCalls(log, {"open", "tcgetattr"}) = 0
        /\ openFiles = {}

\* C10 as amended: open_vt opens the device of the number and fetches its
\* attributes, once each, before it returns the handle; number(), switch()
\* and the other operations on a handle open no device and fetch nothing.
C10_OpenVtOpensAtConstruction ==
    /\ ReturnedOk("open_vt") =>
          /\ CallArgs(log) = << <<"open", vt.number>>, <<"tcgetattr", vt.number>> >>
          /\ log[1].fd = vt.file /\ log[2].fd = vt.file
          /\ openFiles = {[fd |-> vt.file, tty |-> vt.number]}
          /\ vt.termios = ktermios
    /\ (pc = "returned"
          /\ result.op \in {"number", "switch", "switch_to", "blank",
                            "set_blank_timer", "set_echo"}) =>
          /\ CountCalls(log, {"open", "tcgetattr"}) = 0
          /\ (vt # NoVt => openFiles = {[fd |-> vt.file, tty |-> vt.number]})

\* C10 witness: open_vt has returned a handle.
C10_Witness ==
    /\ ReturnedOk("open_vt") /\ vt # NoVt /\ vt.number = 1 /\ Len(log) = 2

\* A control request of the log that the kernel interrupted.
Interrupted(lg, i) ==
    lg[i].call \in ControlCalls /\ lg[i].res = -1 /\ lg[i].errno = EINTR

\* C11 as claimed: a control request whose system call is interrupted by a
\* signal is issued again, with the same argument, and the interruption is
\* not what the operation returns as its error.
C11_InterruptedRequestRetried ==
    \A i \in 1..Len(log) :
        Interrupted(log, i) =>
            /\ Len(log) > i
            /\ log[i + 1].call = log[i].call
            /\ log[i + 1].arg = log[i].arg
            /\ ~(pc = "returned" /\ result.kind = "Err" /\ i = Len(log))

\* C12: every set_echo(echo) on a handle issues exactly one tcsetattr on the
\* file of the handle, also when the cache already holds the requested
\* value, and the termios it carries is the whole cache with ECHO equal to
\* the requested value: k calls make k commits.
C12_SetEchoAlwaysCommits ==
    [][(pc = "idle" /\ pc' = "returned" /\ result'.op = "set_echo") =>
            /\ Len(log') = 1
            /\ log'[1].call = "tcsetattr"
            /\ log'[1].fd = vt.file
            /\ log'[1].data.echo = req'.flag
            /\ log'[1].data = [vt.termios EXCEPT !.echo = req'.flag]]_vars

\* C12 witness: set_echo(false) has committed echo off on an allocated handle
\* that was still in its baseline, where echo was off already.
C12_Witness ==
    /\ ReturnedOk("set_echo") /\ req.flag = FALSE
    /\ origin = "new_vt" /\ ~failed
    /\ Len(log) = 1 /\ log[1].call = "tcsetattr" /\ log[1].data.echo = FALSE
    /\ vt.termios = Baseline(vt.termios)

\* The last entry of a log.
Last(lg) == lg[Len(lg)]

\* C13: when new_vt_with_minimum_number returns a handle, by any path, its
\* last system call was the successful tcsetattr of the handle's file with
\* echo off, signal generation off and VEOF 0, the only tcsetattr of the
\* operation, and the kernel and the cache hold that termios; when open_vt
\* returns a handle no tcsetattr was issued and the cache and the kernel hold
\* what tcgetattr returned.
C13_BaselineCommittedOnAllocate ==
    /\ ReturnedOk("new_vt") =>
          /\ Len(log) >= 1
          /\ Last(log).call = "tcsetattr" /\ Last(log).res = 0
          /\ Last(log).fd = vt.file
          /\ Last(log).data.echo = FALSE
          /\ Last(log).data.isig = FALSE
          /\ Last(log).data.veof = 0
          /\ CountCalls(log, {"tcsetattr"}) = 1
          /\ ktermios = Last(log).data
          /\ vt.termios = Last(log).data
    /\ ReturnedOk("open_vt") =>
          /\ CountCalls(log, {"tcsetattr"}) = 0
          /\ Last(log).call = "tcgetattr" /\ Last(log).res = 0
          /\ ktermios = Last(log).data
          /\ vt.termios = Last(log).data

\* C13 witness: the allocation found a VT with echo, signal generation and
\* VEOF on, and has returned the handle with the three off in the kernel.
C13_Witness ==
    /\ ReturnedOk("new_vt")
    /\ \E i \in At(log, "tcgetattr") :
          log[i].data.echo /\ log[i].data.isig /\ log[i].data.veof # 0
    /\ ~ktermios.echo /\ ~ktermios.isig /\ ktermios.veof = 0

\* C14: signals(set), for every subset of {SIGINT, SIGQUIT, SIGTSTP}, issues
\* exactly one tcsetattr on the file of the handle; the termios it carries is
\* the cache before the call with ISIG set (also for the empty set) and with
\* VINTR, VQUIT, VSUSP equal to 3, 34, 32 for the signals of the set and to 0
\* for the others, and it is the cache after the call.
C14_SignalsSlots ==
    [][(pc = "idle" /\ pc' = "returned" /\ result'.op = "signals") =>
            /\ req'.sigs \in SUBSET VtSignals
            /\ Len(log') = 1
            /\ log'[1].call = "tcsetattr"
            /\ log'[1].fd = vt.file
            /\ log'[1].data.isig = TRUE
            /\ log'[1].data.vintr = (IF "SIGINT" \in req'.sigs THEN 3 ELSE 0)
            /\ log'[1].data.vquit = (IF "SIGQUIT" \in req'.sigs THEN 34 ELSE 0)
            /\ log'[1].data.vsusp = (IF "SIGTSTP" \in req'.sigs THEN 32 ELSE 0)
            /\ log'[1].data.echo = vt.termios.echo
            /\ log'[1].data.ignbrk = vt.termios.ignbrk
            /\ log'[1].data.veof = vt.termios.veof
            /\ vt'.termios = log'[1].data]_vars

\* C14 witness: signals of the empty set on an allocated handle has committed
\* a termios with signal generation on and the three characters at 0.
C14_Witness ==
    /\ ReturnedOk("signals") /\ req.sigs = {} /\ origin = "new_vt"
    /\ ktermios.isig /\ ktermios.vintr = 0 /\ ktermios.vquit = 0 /\ ktermios.vsusp = 0
    /\ ~ktermios.echo

\* C15: open_vt and switch_to given a negative number fail at the
\* construction of the VtNumber (a panic): no system call is issued, no file
\* is opened, no handle is built and the kernel is left as it was.
C15_NegativeNumberRejectedFirst ==
    [][(pc = "idle" /\ result'.op \in {"open_vt", "switch_to"} /\ req'.num < 0) =>
            /\ pc' = "aborted"
            /\ result'.kind = "Panic"
            /\ log' = << >>
            /\ openFiles' = openFiles
            /\ vt' = vt
            /\ busy' = busy /\ consoleblank' = consoleblank
            /\ ktermios' = ktermios]_vars

\* C15 witness: switch_to(-1) was called while a handle is live, and has
\* panicked.
C15_Witness ==
    /\ pc = "aborted" /\ result.op = "switch_to" /\ req.num = -1
    /\ vt # NoVt /\ log = << >>

\* A call of the log failed for a reason of the environment (a permission, a
\* signal), and not because the device does not exist.
InjectedFault(lg) ==
    \E i \in 1..Len(lg) : lg[i].res = -1 /\ lg[i].errno \in {EINTR, EACCES}

\* C16 as claimed: with a minimum above the kernel's last VT, and no call
\* failing for a reason of the environment, the probing loop is never left.
C16_ProbingNeverTerminates ==
    [][(pc = "probing" /\ min > MaxVT /\ ~InjectedFault(log')) =>
            pc' = "probing"]_vars

\* C16 as amended: the probing loop has no bound of its own, but each
\* iteration holds one more VT open, so it is left after at most MaxVT
\* iterations: the allocation always returns, and with a minimum above the
\* kernel's last VT it returns an error and leaves no file open.
C16_ProbingTerminates ==
    /\ [](pc = "probing" => Len(files) <= MaxVT)
    /\ []((Returned("new_vt") /\ min > MaxVT) =>
              (result.kind = "Err" /\ vt = NoVt /\ openFiles = {}))
    /\ (pc = "probing") ~> (pc = "returned")

\* C16 witness: with a minimum above the kernel's last VT the allocation has
\* probed the free VTs, the query has then answered -1, the open of
\* /dev/tty-1 has failed and the allocation has returned that error.
C16_Witness ==
    /\ Returned("new_vt") /\ min > MaxVT /\ result.kind = "Err"
    /\ result.val = ENOENT
    /\ ~InjectedFault(log)
    /\ Cardinality(ProbeQueries) >= 3
    /\ \E i \in ProbeQueries :
          /\ log[i].data = -1
          /\ log[i + 1].call = "open" /\ log[i + 1].arg = -1 /\ log[i + 1].res = -1
    /\ openFiles = {}

\* C17 as claimed: when the first query answers n < min and min >= 16, the
\* allocation, once VT_GETSTATE has answered, goes on to the probing loop: it
\* does not stop at the computation of the mask 1 << min.
C17_HighMinimumFallsBackToProbing ==
    (/\ result.op = "new_vt" /\ pc \in {"probing", "returned", "aborted"}
     /\ min >= StateBits
     /\ Len(log) >= 2
     /\ log[1].call = "VT_OPENQRY" /\ log[1].res = 0 /\ log[1].data < min
     /\ log[2].call = "VT_GETSTATE" /\ log[2].res = 0) =>
        /\ pc # "aborted"
        /\ result.kind # "Panic"

\* The positions of the log whose call failed.
FailedAt(lg) == { i \in 1..Len(lg) : lg[i].res = -1 }

\* C18: when the allocation returns an error from the slow path (a probing
\* query, a probing open, the tcgetattr of the winning file or the commit
\* failed), the failed call is followed by no query, open or other request
\* but the release of what was acquired, the error is that of the failed
\* call, and every device file opened by the allocation has been closed:
\* none is left open.
C18_NoProbeFileLeaked ==
    (SlowPath /\ Returned("new_vt") /\ result.kind = "Err") =>
        /\ vt = NoVt
        /\ openFiles = {}
        /\ \A i \in At(log, "open") :
              log[i].res = 0 =>
                  Cardinality({ j \in At(log, "close") :
                                  j > i /\ log[j].fd = log[i].fd }) = 1
        /\ \E i \in FailedAt(log) :
              /\ log[i].call \in {"VT_OPENQRY", "open", "tcgetattr", "tcsetattr"}
              /\ \A j \in 1..(i - 1) : log[j].res = 0
              /\ \A j \in (i + 1)..Len(log) :
                    log[j].call \in {"close", "VT_DISALLOCATE"}
              /\ result.val \in {log[i].res, log[i].errno}

\* C18 witness: two probes have opened their devices and the third probing
\* open has failed; the allocation has returned the error and the two files
\* are closed.
C18_Witness ==
    /\ SlowPath /\ Returned("new_vt") /\ result.kind = "Err"
    /\ Cardinality({ i \in At(log, "open") : log[i].res = 0 }) = 2
    /\ Last(log).call = "close"
    /\ Cardinality(At(log, "close")) = 2
    /\ \E i \in FailedAt(log) : log[i].call = "open" /\ i >= 3
    /\ openFiles = {}

\* C19 as claimed: the error an operation returns for a failed control
\* request carries the errno of that request.
C19_ErrorCarriesErrno ==
    (pc = "returned" /\ result.kind = "Err") =>
        \A i \in FailedAt(log) :
            log[i].call \in (ControlCalls \ {"VT_DISALLOCATE"}) =>
                result.val = log[i].errno

\* C20: whenever a handle is destroyed (by its drop, or inside the
\* allocation when the commit of the baseline fails) the VT_DISALLOCATE of
\* its number comes while the handle's file is open: no close of that file
\* comes before the request, and the close comes right after it.  A drop
\* issues the request and the close, in that order, and nothing else.
C20_DeallocateBeforeClose ==
    /\ \A i \in At(log, "VT_DISALLOCATE") :
          /\ \A j \in 1..(i - 1) :
                ~(log[j].call = "close" /\ log[j].arg = log[i].arg)
          /\ Len(log) > i
          /\ log[i + 1].call = "close" /\ log[i + 1].arg = log[i].arg
          /\ (result.op # "drop") =>
                \E j \in 1..(i - 1) :
                    log[j].call = "tcsetattr" /\ log[j].fd = log[i + 1].fd
    /\ Returned("drop") =>
          CallArgs(log) = << <<"VT_DISALLOCATE", result.val>>, <<"close", result.val>> >>

\* C20 witness: the commit of the baseline failed inside the allocation and
\* the handle was destroyed: tcsetattr, VT_DISALLOCATE, close, in that order.
C20_Witness ==
    /\ Returned("new_vt") /\ result.kind = "Err" /\ Len(log) >= 3
    /\ log[Len(log) - 2].call = "tcsetattr" /\ log[Len(log) - 2].res = -1
    /\ log[Len(log) - 1].call = "VT_DISALLOCATE"
    /\ Last(log).call = "close" /\ Last(log).arg = log[Len(log) - 1].arg
    /\ openFiles = {}

\* C21: when blank(true) has read the timer as 0 and raised it to 1, and the
\* blank request or the write that restores the timer then fails, blank
\* returns the error of that call, issues nothing after it, and the console
\* timer is left at 1 and not at the 0 it had before the call.
C21_FailedBlankLeavesTimerRaised ==
    [][(/\ pc = "idle" /\ pc' = "returned" /\ result'.op = "blank"
        /\ Len(log') >= 3
        /\ log'[1].call = "read_blank_timer" /\ log'[1].res = 0 /\ log'[1].data = 0
        /\ log'[2].call = "write_blank_timer" /\ log'[2].arg = 1 /\ log'[2].res = 0
        /\ FailedAt(log') # {}) =>
            /\ consoleblank = 0
            /\ consoleblank' = 1
            /\ result'.kind = "Err"
            /\ FailedAt(log') = {Len(log')}
            /\ IF log'[3].res = -1
               THEN /\ Len(log') = 3
                    /\ CountCalls(log', {"write_blank_timer"}) = 1
               ELSE /\ Len(log') = 4
                    /\ log'[4].call = "write_blank_timer" /\ log'[4].arg = 0]_vars

\* C21 witness: blank(true) raised the timer from 0 to 1, the blank request
\* failed, blank has returned the error and the timer is 1.
C21_Witness ==
    /\ BlankRead(0) /\ result.kind = "Err" /\ Len(log) = 3
    /\ log[2].call = "write_blank_timer" /\ log[2].arg = 1 /\ log[2].res = 0
    /\ log[3].call = "TIOCLINUX" /\ log[3].res = -1
    /\ consoleblank = 1

\* The operations that commit the cache of a live handle.
CommitOps == {"set_echo", "signals"}

\* C22: the cache of a live handle equals the kernel's termios of its VT as
\* long as no commit on the handle has failed, and again after every commit
\* that succeeds; an operation that is not a commit changes neither.  A
\* set_echo or signals whose commit fails leaves the kernel's termios as it
\* was and the cache as the call changed it: the cache is what the failed
\* tcsetattr carried, it holds the requested echo flag, or ISIG and the
\* requested signals, and is_echo_enabled answers from the cache.
C22_CacheAndKernelTermios ==
    /\ []((vt # NoVt /\ ~failed) => vt.termios = ktermios)
    /\ []((pc = "returned" /\ result.op \in CommitOps /\ result.kind = "Ok") =>
              (vt.termios = ktermios /\ Last(log).data = ktermios))
    /\ [](Returned("is_echo_enabled") =>
              (result.val = 1 <=> vt.termios.echo))
    /\ [][(vt # NoVt /\ vt' # NoVt /\ result'.op \notin CommitOps) =>
              (vt' = vt /\ ktermios' = ktermios)]_vars
    /\ [][(pc = "idle" /\ pc' = "returned" /\ result'.op \in CommitOps
             /\ result'.kind = "Err") =>
              /\ ktermios' = ktermios
              /\ Len(log') = 1 /\ log'[1].call = "tcsetattr" /\ log'[1].res = -1
              /\ vt'.termios = log'[1].data
              /\ (result'.op = "set_echo" =>
                     /\ vt'.termios.echo = req'.flag
                     /\ IsEchoEnabled(vt') = req'.flag)
              /\ (result'.op = "signals" =>
                     /\ vt'.termios.isig
                     /\ (vt'.termios.vintr # 0 <=> "SIGINT" \in req'.sigs)
                     /\ (vt'.termios.vquit # 0 <=> "SIGQUIT" \in req'.sigs)
                     /\ (vt'.termios.vsusp # 0 <=> "SIGTSTP" \in req'.sigs))]_vars

\* C22 witness: after a set_echo(true) whose commit failed, is_echo_enabled
\* has answered true while the kernel holds echo off.
C22_Witness ==
    /\ Returned("is_echo_enabled") /\ result.val = 1
    /\ failed /\ vt.termios.echo /\ ~ktermios.echo

\* C23: when new_vt_with_minimum_number returns an error no handle exists.
\* If the failed call is an open or the tcgetattr, no VT_DISALLOCATE has been
\* issued; a VT_DISALLOCATE is issued only after a failed commit of the
\* baseline: then exactly one is issued, right after the failed tcsetattr and
\* for the number of the handle that was built, the file of the handle is
\* closed, and the error returned is that of the tcsetattr, whatever the
\* VT_DISALLOCATE returned.
C23_FailureInAllocateAndDeallocation ==
    (Returned("new_vt") /\ result.kind = "Err") =>
        /\ vt = NoVt
        /\ \A i \in FailedAt(log) :
              log[i].call \in {"open", "tcgetattr"} =>
                  /\ CountCalls(log, {"VT_DISALLOCATE"}) = 0
                  /\ result.val = log[i].errno
        /\ (CountCalls(log, {"VT_DISALLOCATE"}) > 0) =>
              \E i \in At(log, "tcsetattr") : log[i].res = -1
        /\ \A i \in At(log, "tcsetattr") :
              log[i].res = -1 =>
                  /\ Len(log) = i + 2
                  /\ At(log, "VT_DISALLOCATE") = {i + 1}
                  /\ log[i + 1].arg = log[i].arg
                  /\ log[i + 2].call = "close" /\ log[i + 2].fd = log[i].fd
                  /\ \E j \in At(log, "tcgetattr") :
                        j < i /\ log[j].res = 0 /\ log[j].arg = log[i].arg
                  /\ result.val = log[i].errno
                  /\ openFiles = {}

\* C23 witness: the commit of the baseline failed, the handle was destroyed,
\* the kernel refused the VT_DISALLOCATE, and the allocation has returned
\* the error of the commit.
C23_Witness ==
    /\ Returned("new_vt") /\ result.kind = "Err" /\ vt = NoVt
    /\ \E i \in At(log, "tcsetattr") :
          /\ log[i].res = -1 /\ result.val = log[i].errno
          /\ log[i + 1].call = "VT_DISALLOCATE" /\ log[i + 1].res = -1
          /\ log[i + 1].arg = log[i].arg

====
